---- MODULE Spec2Model ----
(***************************************************************************)
(* Model of src/main.py (TelethonPublisher): the per-group daily counter,  *)
(* the admission check, the send executor and the publisher loop.          *)
(*                                                                         *)
(* Chat ids are the integers int(chat_id) of the registry's numeric        *)
(* strings; the counter key f"{chat_id}_{today}" is the pair               *)
(* <<chat_id, day>> (the date text holds no "_", so the key is injective). *)
(* One step of the model is the code that runs between two awaits of the   *)
(* single-threaded asyncio scheduler.                                      *)
(***************************************************************************)
EXTENDS Integers, Sequences, FiniteSets, TLC

\* ---- bounds of the model ----
MaxGroups == 2
MaxMsgs == 2
MaxLimit == 1
MaxDay == 2
MaxWait == 2

\* ---- program constants ----
ForceFactor == 3
DefaultDelay == 300
StaggerSeconds == 2

VARIABLES
    today,        \* datetime.now() as a day number
    force_mode,   \* self.force_mode
    groups,       \* self.groups, as the sequence of its chat ids
    config,       \* self.config: messages, delays, daily_limit, last_sent
    file_config,  \* the content of config.json
    pc,           \* where run()/start_publishing() is suspended
    message_index,\* the loop variable of start_publishing
    tasks,        \* the coroutines of the current round handed to gather
    total_sent,   \* the running total of start_publishing
    waits,        \* the delays start_publishing has slept on in this run
    outcome,      \* how the last run of start_publishing ended
    reported      \* the total printed by the last completed run

vars == <<today, force_mode, groups, config, file_config, pc, message_index,
          tasks, total_sent, waits, outcome, reported>>

ChatIds == 1..MaxGroups
Days == 1..MaxDay
WaitSecs == 1..MaxWait

Key(chat_id, day) == <<chat_id, day>>

\* the sum of a task list's successes is taken over these indexes
Indexes(s) == 1..Len(s)

\* str.strip() on the message texts of the model
Strip(s) == IF s = " " THEN "" ELSE s

\* ---- the admission check and the counter ----

\* can_send_to_group with <= for <
can_send_to_group_inclusive(cfg, fm, chat_id, day) ==
    LET effective_limit == IF fm THEN cfg.daily_limit * ForceFactor
                                 ELSE cfg.daily_limit
        key == Key(chat_id, day)
        ls == IF key \notin DOMAIN cfg.last_sent
              THEN cfg.last_sent @@ (key :> 0)
              ELSE cfg.last_sent
    IN  [result |-> ls[key] <= effective_limit,
         config |-> [cfg EXCEPT !.last_sent = ls]]

\* can_send_to_group with the force-mode limit doubled, not tripled
can_send_to_group_double(cfg, fm, chat_id, day) ==
    LET effective_limit == IF fm THEN cfg.daily_limit * 2
                                 ELSE cfg.daily_limit
        key == Key(chat_id, day)
        ls == IF key \notin DOMAIN cfg.last_sent
              THEN cfg.last_sent @@ (key :> 0)
              ELSE cfg.last_sent
    IN  [result |-> ls[key] < effective_limit,
         config |-> [cfg EXCEPT !.last_sent = ls]]

\* can_send_to_group without the "if key not in" guard: the count is zeroed
can_send_to_group_reset(cfg, fm, chat_id, day) ==
    LET effective_limit == IF fm THEN cfg.daily_limit * ForceFactor
                                 ELSE cfg.daily_limit
        key == Key(chat_id, day)
        ls == IF key \notin DOMAIN cfg.last_sent
              THEN cfg.last_sent @@ (key :> 0)
              ELSE [cfg.last_sent EXCEPT ![key] = 0]
    IN  [result |-> ls[key] < effective_limit,
         config |-> [cfg EXCEPT !.last_sent = ls]]

\* can_send_to_group: the answer and the config it leaves behind
can_send_to_group(cfg, fm, chat_id, day) ==
    LET effective_limit == IF fm THEN cfg.daily_limit * ForceFactor
                                 ELSE cfg.daily_limit
        key == Key(chat_id, day)
        ls == IF key \notin DOMAIN cfg.last_sent
              THEN cfg.last_sent @@ (key :> 0)
              ELSE cfg.last_sent
    IN  [result |-> ls[key] < effective_limit,
         config |-> [cfg EXCEPT !.last_sent = ls]]

\* save_config: the file content after the write
save_config(cfg, file) == cfg

\* mark_sent_to_group with "= 1" for "+= 1"
mark_sent_to_group_set_one(cfg, file, chat_id, day) ==
    LET key == Key(chat_id, day)
        ls == IF key \notin DOMAIN cfg.last_sent
              THEN cfg.last_sent @@ (key :> 0)
              ELSE cfg.last_sent
        c2 == [cfg EXCEPT !.last_sent = [ls EXCEPT ![key] = 1]]
    IN  [config |-> c2, file |-> save_config(c2, file)]

\* mark_sent_to_group: the config and the file it leaves behind
mark_sent_to_group(cfg, file, chat_id, day) ==
    LET key == Key(chat_id, day)
        ls == IF key \notin DOMAIN cfg.last_sent
              THEN cfg.last_sent @@ (key :> 0)
              ELSE cfg.last_sent
        c2 == [cfg EXCEPT !.last_sent = [ls EXCEPT ![key] = ls[key] + 1]]
    IN  [config |-> c2, file |-> save_config(c2, file)]


\* ---- the send executor ----

\* what client.send_message can do: succeed, or raise one of the errors
Outcomes ==
    [kind : {"ok", "forbidden", "admin", "banned", "other"}, secs : {0}]
        \cup [kind : {"flood", "slow"}, secs : WaitSecs]

\* send_message_safely up to its await: the rate check, then the send or
\* the early return
send_message_safely_begin(cfg, fm, chat_id, day) ==
    LET r == can_send_to_group(cfg, fm, chat_id, day)
    IN  [config |-> r.config, send |-> r.result]

\* send_message_safely without the final "except Exception"
send_message_safely_end_reraise(o) ==
    CASE o.kind = "ok" ->
            [mark |-> TRUE, sleep |-> <<>>, ret |-> "true", retry |-> FALSE]
      [] o.kind \in {"flood", "slow"} ->
            [mark |-> FALSE, sleep |-> <<o.secs>>, ret |-> "false",
             retry |-> FALSE]
      [] o.kind = "other" ->
            [mark |-> FALSE, sleep |-> <<>>, ret |-> "raised", retry |-> FALSE]
      [] OTHER ->
            [mark |-> FALSE, sleep |-> <<>>, ret |-> "false", retry |-> FALSE]

\* send_message_safely sending again after the wait it was told to make
send_message_safely_end_retry(o) ==
    CASE o.kind = "ok" ->
            [mark |-> TRUE, sleep |-> <<>>, ret |-> "true", retry |-> FALSE]
      [] o.kind \in {"flood", "slow"} ->
            [mark |-> FALSE, sleep |-> <<o.secs>>, ret |-> "false",
             retry |-> TRUE]
      [] OTHER ->
            [mark |-> FALSE, sleep |-> <<>>, ret |-> "false", retry |-> FALSE]

\* send_message_safely after the await: what each outcome of the send leads
\* to (mark the counter, sleep, the value returned, a further send)
send_message_safely_end(o) ==
    CASE o.kind = "ok" ->
            [mark |-> TRUE, sleep |-> <<>>, ret |-> "true", retry |-> FALSE]
      [] o.kind \in {"flood", "slow"} ->
            [mark |-> FALSE, sleep |-> <<o.secs>>, ret |-> "false",
             retry |-> FALSE]
      [] OTHER ->
            [mark |-> FALSE, sleep |-> <<>>, ret |-> "false", retry |-> FALSE]

\* send_to_group_with_delay: the value it returns for what
\* send_message_safely returned or raised
send_to_group_with_delay(ret) == IF ret = "true" THEN "true" ELSE "false"

\* a coroutine of send_to_group_with_delay as gather receives it
NewTask(chat_id, msg, delay) ==
    [chat |-> chat_id, msg |-> msg, delay |-> delay, state |-> "scheduled",
     outcome |-> "none", secs |-> 0, slept |-> <<>>, attempts |-> 0,
     ret |-> "none", result |-> "none"]

\* a task's record once it has returned
Resolved(t, ret) ==
    [t EXCEPT !.state = "done", !.ret = ret,
              !.result = send_to_group_with_delay(ret)]

\* a fail-fast batch: a task that returns false cancels the pending ones
UpdateTaskFailFast(ts, k, t) ==
    [i \in Indexes(ts) |->
        IF i = k THEN t
        ELSE IF t.state = "done" /\ t.result = "false" /\ ts[i].state # "done"
        THEN [ts[i] EXCEPT !.state = "done", !.ret = "false",
                           !.result = "false"]
        ELSE ts[i]]

\* the task list after task k has become t: tasks are independent
UpdateTask(ts, k, t) == [ts EXCEPT ![k] = t]

\* ---- the publisher loop ----

\* the delay slept on before message i (0-based)
DelayFor(cfg, i) ==
    IF i < Len(cfg.delays) THEN cfg.delays[i + 1] ELSE DefaultDelay

\* the loop over self.groups without the admission check
RECURSIVE BuildTasksNoSkip(_, _, _, _, _, _)
BuildTasksNoSkip(cfg, fm, gs, day, msg, acc) ==
    IF gs = <<>> THEN [config |-> cfg, tasks |-> acc]
    ELSE BuildTasksNoSkip(cfg, fm, Tail(gs), day, msg,
             Append(acc, NewTask(Head(gs), msg, Len(acc) * StaggerSeconds)))

\* the loop over self.groups of one round: skip the denied, schedule the rest
RECURSIVE BuildTasks(_, _, _, _, _, _)
BuildTasks(cfg, fm, gs, day, msg, acc) ==
    IF gs = <<>> THEN [config |-> cfg, tasks |-> acc]
    ELSE LET r == can_send_to_group(cfg, fm, Head(gs), day)
         IN  IF ~r.result
             THEN BuildTasks(r.config, fm, Tail(gs), day, msg, acc)
             ELSE BuildTasks(r.config, fm, Tail(gs), day, msg,
                     Append(acc, NewTask(Head(gs), msg,
                                         Len(acc) * StaggerSeconds)))

\* a join that returns with the first task to finish
GatherFirstDone(ts) == \E i \in Indexes(ts) : ts[i].state = "done"

\* gather(*tasks, return_exceptions=True) returns when every task has
GatherDone(ts) == \A i \in Indexes(ts) : ts[i].state = "done"

\* a tally that counts every result, not only True
successful_sends_all(ts) ==
    Cardinality({i \in Indexes(ts) : ts[i].result # "none"})

\* sum(1 for result in results if result is True)
successful_sends(ts) ==
    Cardinality({i \in Indexes(ts) : ts[i].result = "true"})

\* the validation at the head of start_publishing (and of run in force mode)
HasGroups == groups # <<>>
HasMessages ==
    config.messages # <<>> /\ Strip(config.messages[1]) # ""

\* where run() rests between two runs of start_publishing
IdlePc == IF force_mode THEN "cycle" ELSE "menu_top"


\* show_status: one admission check per registered group
RECURSIVE show_status(_, _, _, _)
show_status(cfg, fm, gs, day) ==
    IF gs = <<>> THEN cfg
    ELSE show_status(can_send_to_group(cfg, fm, Head(gs), day).config,
                     fm, Tail(gs), day)

\* ---- the initial state: the publisher as constructed by main() ----

InitMessages ==
    {<<>>, <<" ">>} \cup {[i \in 1..n |-> "A"] : n \in 1..MaxMsgs}
InitDelays == {[i \in 1..n |-> 10 * i] : n \in 0..MaxMsgs}

Init ==
    /\ today = 1
    /\ force_mode \in BOOLEAN
    /\ groups \in {[i \in 1..n |-> i] : n \in 0..MaxGroups}
    /\ config \in [messages : InitMessages, delays : InitDelays,
                   daily_limit : 1..MaxLimit, last_sent : {<<>>}]
    /\ file_config = config
    /\ pc = "start"
    /\ message_index = 0
    /\ tasks = <<>>
    /\ total_sent = 0
    /\ waits = <<>>
    /\ outcome = "none"
    /\ reported = 0

\* ---- run(): the two modes ----

\* run() up to its first suspension: force mode validates and enters the
\* cycle loop, normal mode enters the menu loop
RunStart ==
    /\ pc = "start"
    /\ pc' = IF force_mode
             THEN (IF HasGroups /\ HasMessages THEN "cycle" ELSE "exited")
             ELSE "menu_top"
    /\ UNCHANGED <<today, force_mode, groups, config, file_config,
                   message_index, tasks, total_sent, waits, outcome, reported>>

\* the menu loop prints the status, then prompts
ShowStatus ==
    /\ pc = "menu_top"
    /\ config' = show_status(config, force_mode, groups, today)
    /\ pc' = "menu_prompt"
    /\ UNCHANGED <<today, force_mode, groups, file_config, message_index,
                   tasks, total_sent, waits, outcome, reported>>

\* ---- start_publishing ----

\* the head of start_publishing: validation, the confirmation prompt of
\* normal mode, and the first sleep
StartPublishing(confirm) ==
    /\ pc = IF force_mode THEN "cycle" ELSE "menu_prompt"
    /\ IF ~HasGroups
       THEN /\ outcome' = "no_groups"
            /\ pc' = IdlePc
            /\ UNCHANGED <<message_index, tasks, total_sent, waits, reported>>
       ELSE IF ~HasMessages
       THEN /\ outcome' = "no_messages"
            /\ pc' = IdlePc
            /\ UNCHANGED <<message_index, tasks, total_sent, waits, reported>>
       ELSE IF ~force_mode /\ ~confirm
       THEN /\ outcome' = "declined"
            /\ pc' = IdlePc
            /\ UNCHANGED <<message_index, tasks, total_sent, waits, reported>>
       ELSE /\ outcome' = "running"
            /\ total_sent' = 0
            /\ message_index' = 0
            /\ waits' = <<DelayFor(config, 0)>>
            /\ tasks' = <<>>
            /\ reported' = 0
            /\ pc' = "waiting"
    /\ UNCHANGED <<today, force_mode, groups, config, file_config>>

\* the end of a round: the next message's sleep, or the final report
NextMessage(total) ==
    /\ total_sent' = total
    /\ IF message_index + 1 < Len(config.messages)
       THEN /\ message_index' = message_index + 1
            /\ waits' = Append(waits, DelayFor(config, message_index + 1))
            /\ pc' = "waiting"
            /\ UNCHANGED <<outcome, reported>>
       ELSE /\ pc' = IdlePc
            /\ outcome' = "completed"
            /\ reported' = total
            /\ UNCHANGED <<message_index, waits>>

\* the sleep before message_index is over: the round's tasks are built and
\* handed to gather (or, with none, the loop goes on)
WakeAndSchedule ==
    /\ pc = "waiting"
    /\ LET b == BuildTasks(config, force_mode, groups, today,
                           message_index, <<>>)
       IN  /\ config' = b.config
           /\ IF b.tasks # <<>>
              THEN /\ tasks' = b.tasks
                   /\ pc' = "gather"
                   /\ UNCHANGED <<message_index, total_sent, waits, outcome,
                                  reported>>
              ELSE /\ tasks' = <<>>
                   /\ NextMessage(total_sent)
    /\ UNCHANGED <<today, force_mode, groups, file_config>>

\* task k's stagger sleep is over (timers fire in deadline order): it
\* enters send_message_safely
TaskStart(k) ==
    /\ k \in Indexes(tasks)
    /\ tasks[k].state = "scheduled"
    /\ \A j \in 1..(k - 1) : tasks[j].state # "scheduled"
    /\ LET t == tasks[k]
           b == send_message_safely_begin(config, force_mode, t.chat, today)
       IN  /\ config' = b.config
           /\ tasks' = UpdateTask(tasks, k,
                  IF b.send
                  THEN [t EXCEPT !.state = "sending",
                                 !.attempts = t.attempts + 1]
                  ELSE Resolved(t, "false"))
    /\ UNCHANGED <<today, force_mode, groups, file_config, pc, message_index,
                   total_sent, waits, outcome, reported>>

\* client.send_message of task k returns or raises
SendReturn(k, o) ==
    /\ k \in Indexes(tasks)
    /\ tasks[k].state = "sending"
    /\ LET t == [tasks[k] EXCEPT !.outcome = o.kind, !.secs = o.secs]
           e == send_message_safely_end(o)
           m == mark_sent_to_group(config, file_config, t.chat, today)
       IN  /\ IF e.mark
              THEN config' = m.config /\ file_config' = m.file
              ELSE UNCHANGED <<config, file_config>>
           /\ tasks' = UpdateTask(tasks, k,
                  IF e.sleep # <<>>
                  THEN [t EXCEPT !.state = "throttled",
                                 !.slept = t.slept \o e.sleep]
                  ELSE Resolved(t, e.ret))
    /\ UNCHANGED <<today, force_mode, groups, pc, message_index, total_sent,
                   waits, outcome, reported>>

\* the sleep of a flood or slow-mode wait of task k is over
ThrottleWake(k) ==
    /\ k \in Indexes(tasks)
    /\ tasks[k].state = "throttled"
    /\ LET t == tasks[k]
           e == send_message_safely_end([kind |-> t.outcome, secs |-> t.secs])
       IN  tasks' = UpdateTask(tasks, k,
                  IF e.retry
                  THEN [t EXCEPT !.state = "sending",
                                 !.attempts = t.attempts + 1]
                  ELSE Resolved(t, e.ret))
    /\ UNCHANGED <<today, force_mode, groups, config, file_config, pc,
                   message_index, total_sent, waits, outcome, reported>>

\* gather returns: the round is tallied and the loop goes on
Tally ==
    /\ pc = "gather"
    /\ GatherDone(tasks)
    /\ tasks' = SelectSeq(tasks, LAMBDA t : t.state # "done")
    /\ NextMessage(total_sent + successful_sends(tasks))
    /\ UNCHANGED <<today, force_mode, groups, config, file_config>>

\* midnight passes
DayTick ==
    /\ today < MaxDay
    /\ today' = today + 1
    /\ UNCHANGED <<force_mode, groups, config, file_config, pc,
                   message_index, tasks, total_sent, waits, outcome, reported>>

Next ==
    \/ RunStart
    \/ ShowStatus
    \/ \E confirm \in BOOLEAN : StartPublishing(confirm)
    \/ WakeAndSchedule
    \/ \E k \in 1..MaxGroups : TaskStart(k)
    \/ \E k \in 1..MaxGroups, o \in Outcomes : SendReturn(k, o)
    \/ \E k \in 1..MaxGroups : ThrottleWake(k)
    \/ Tally
    \/ DayTick

Spec == Init /\ [][Next]_vars


\* ---- the edit menu (normal mode) ----

\* what the operator can type at a numeric prompt: text that int() rejects
\* (num = FALSE) or a number
Typed(lo, hi) == {[num |-> FALSE, val |-> 0]} \cup [num : {TRUE}, val : lo..hi]

\* f"Message {i + 1} - please edit this" for the 1-based position j = i + 1
Placeholder(j) == "Message " \o ToString(j) \o " - please edit this"

\* set_daily_limit: the config it leaves and whether it saved
set_daily_limit(cfg, inp) ==
    IF ~inp.num THEN [config |-> cfg, saved |-> FALSE]
    ELSE IF inp.val <= 0 THEN [config |-> cfg, saved |-> FALSE]
    ELSE [config |-> [cfg EXCEPT !.daily_limit = inp.val], saved |-> TRUE]

\* set_message_count adjusting the delays by the old number of messages
set_message_count_by_messages(cfg, inp) ==
    IF ~inp.num THEN [config |-> cfg, saved |-> FALSE]
    ELSE IF inp.val <= 0 THEN [config |-> cfg, saved |-> FALSE]
    ELSE LET count == inp.val
             current_count == Len(cfg.messages)
             messages ==
                 IF count > current_count
                 THEN cfg.messages \o
                      [j \in 1..(count - current_count) |->
                           Placeholder(current_count + j)]
                 ELSE SubSeq(cfg.messages, 1, count)
             delays ==
                 IF count > current_count
                 THEN cfg.delays \o
                      [j \in 1..(count - current_count) |-> DefaultDelay]
                 ELSE IF count < current_count
                 THEN SubSeq(cfg.delays, 1, count)
                 ELSE cfg.delays
         IN  [config |-> [cfg EXCEPT !.messages = messages,
                                     !.delays = delays],
              saved |-> TRUE]

\* set_message_count: the config it leaves and whether it saved
set_message_count(cfg, inp) ==
    IF ~inp.num THEN [config |-> cfg, saved |-> FALSE]
    ELSE IF inp.val <= 0 THEN [config |-> cfg, saved |-> FALSE]
    ELSE LET count == inp.val
             current_count == Len(cfg.messages)
             current_delays == Len(cfg.delays)
             messages ==
                 IF count > current_count
                 THEN cfg.messages \o
                      [j \in 1..(count - current_count) |->
                           Placeholder(current_count + j)]
                 ELSE SubSeq(cfg.messages, 1, count)
             delays ==
                 IF count > current_delays
                 THEN cfg.delays \o
                      [j \in 1..(count - current_delays) |-> DefaultDelay]
                 ELSE SubSeq(cfg.delays, 1, count)
         IN  [config |-> [cfg EXCEPT !.messages = messages,
                                     !.delays = delays],
              saved |-> TRUE]

\* choice 4 of the main menu
EnterEdit ==
    /\ pc = "menu_prompt"
    /\ pc' = "edit_menu"
    /\ UNCHANGED <<today, force_mode, groups, config, file_config,
                   message_index, tasks, total_sent, waits, outcome, reported>>

\* an edit operation r applied and, if it saved, written to the file
ApplyEdit(r) ==
    /\ pc = "edit_menu"
    /\ config' = r.config
    /\ file_config' = IF r.saved THEN save_config(r.config, file_config)
                                 ELSE file_config
    /\ outcome' = IF r.saved THEN "edited" ELSE "rejected"
    /\ UNCHANGED <<today, force_mode, groups, pc, message_index, tasks,
                   total_sent, waits, reported>>

SetDailyLimit(inp) == ApplyEdit(set_daily_limit(config, inp))

SetMessageCount(inp) == ApplyEdit(set_message_count(config, inp))

\* choice 5 of the edit menu
LeaveEdit ==
    /\ pc = "edit_menu"
    /\ pc' = "menu_top"
    /\ UNCHANGED <<today, force_mode, groups, config, file_config,
                   message_index, tasks, total_sent, waits, outcome, reported>>

NextEdit ==
    \/ Next
    \/ EnterEdit
    \/ \E inp \in Typed(0, MaxLimit + 1) : SetDailyLimit(inp)
    \/ \E inp \in Typed(0, MaxMsgs) : SetMessageCount(inp)
    \/ LeaveEdit

SpecEdit == Init /\ [][NextEdit]_vars



\* ---- what the properties are stated in ----

\* the count of a key in a counter mapping, a missing key counting as 0
CountOf(ls, chat_id, day) ==
    IF <<chat_id, day>> \in DOMAIN ls THEN ls[<<chat_id, day>>] ELSE 0

StoredCount(chat_id, day) == CountOf(config.last_sent, chat_id, day)

SavedCount(chat_id, day) == CountOf(file_config.last_sent, chat_id, day)

\* the effective limit as specified
StatedLimit ==
    IF force_mode THEN 3 * config.daily_limit ELSE config.daily_limit

\* the delay specified for message i (0-based)
StatedDelay(i) ==
    IF i + 1 \in DOMAIN config.delays THEN config.delays[i + 1] ELSE 300

\* the step in which the loop, woken from its sleep, runs the group loop
ScheduleStep ==
    pc = "waiting" /\ (pc' # "waiting" \/ message_index' # message_index)

\* C1: with daily_limit and force_mode fixed, no (group, date) count, in
\* memory or in the file, ever exceeds the effective limit
C1_CountWithinLimit ==
    \A c \in ChatIds, d \in Days :
        /\ StoredCount(c, d) <= StatedLimit
        /\ SavedCount(c, d) <= StatedLimit

\* a later run is sending to one group while another sits at the limit
C1_Witness ==
    /\ pc = "gather"
    /\ \E c \in ChatIds : StoredCount(c, today) = StatedLimit
    /\ \E k \in Indexes(tasks) : tasks[k].state = "sending"

\* C2: each message's wait is recorded, in index order and with its own
\* delay, before any of its sends exists; sends of message i are in flight
\* only while the loop awaits round i, so the wait of i+1 starts after them
C2_SequentialMessages ==
    /\ pc \in {"waiting", "gather"} => Len(waits) = message_index + 1
    /\ \A j \in Indexes(waits) : waits[j] = StatedDelay(j - 1)
    /\ tasks # <<>> => pc = "gather"
    /\ \A k \in Indexes(tasks) :
          /\ tasks[k].msg = message_index
          /\ Len(waits) = tasks[k].msg + 1

\* the second message is being sent after its own 20-second wait
C2_Witness ==
    /\ pc = "gather"
    /\ message_index = 1
    /\ waits = <<10, 20>>
    /\ \E k \in Indexes(tasks) : tasks[k].state = "sending"

C3_Step ==
    \A c \in ChatIds :
        StoredCount(c, today) >= StatedLimit =>
            /\ LET b == send_message_safely_begin(config, force_mode, c, today)
               IN  /\ ~b.send
                   /\ CountOf(b.config.last_sent, c, today)
                          = StoredCount(c, today)
            /\ ScheduleStep =>
                  /\ \A k \in Indexes(tasks') : tasks'[k].chat # c
                  /\ CountOf(config'.last_sent, c, today)
                         = StoredCount(c, today)
            /\ \A k \in Indexes(tasks) \cap Indexes(tasks') :
                  (tasks[k].chat = c /\ tasks[k].state = "scheduled"
                        /\ tasks'[k] # tasks[k])
                  => /\ tasks'[k].attempts = tasks[k].attempts
                     /\ tasks'[k].state = "done"
                     /\ tasks'[k].ret = "false"

\* C3: a group whose count has reached the effective limit gets no send:
\* send_message_safely returns false before the send, the group loop
\* schedules nothing for it, and its count stays as it is
C3_DeniedNoSend == [][C3_Step]_vars

\* a round in which one registered group was skipped and another scheduled
C3_Witness ==
    /\ pc = "gather"
    /\ \E c \in ChatIds :
          /\ \E i \in Indexes(groups) : groups[i] = c
          /\ StoredCount(c, today) >= StatedLimit
          /\ \A k \in Indexes(tasks) : tasks[k].chat # c
    /\ \E k \in Indexes(tasks) : tasks[k].attempts = 1


\* task k returns in this step
Returns(k) ==
    /\ k \in Indexes(tasks) \cap Indexes(tasks')
    /\ tasks[k].state # "done"
    /\ tasks'[k].state = "done"

C4_Step ==
    \A k \in 1..Len(tasks') :
        Returns(k) =>
            LET t == tasks'[k]
            IN  /\ t.ret \in {"true", "false"}
                /\ t.outcome # "ok" => t.ret = "false"
                /\ t.ret = "true" =>
                      /\ t.outcome = "ok"
                      /\ CountOf(config'.last_sent, t.chat, today) =
                             StoredCount(t.chat, today) + 1

\* C4: send_message_safely returns false for every failure of the send and
\* raises none of them; it returns true only for a send that succeeded and
\* whose count went up by one
C4_NeverRaises == [][C4_Step]_vars

\* one send of the round failed with an unclassified error and returned
\* false, another succeeded and returned true
C4_Witness ==
    \E j, k \in Indexes(tasks) :
        /\ tasks[j].state = "done" /\ tasks[j].outcome = "other"
        /\ tasks[j].ret = "false"
        /\ tasks[k].state = "done" /\ tasks[k].outcome = "ok"
        /\ tasks[k].ret = "true"

C5_Step ==
    /\ \A k \in Indexes(tasks') :
          tasks'[k].state = "done" =>
              tasks'[k].attempts = 1 /\ tasks'[k].outcome # "none"
    /\ (pc = "gather" /\ pc' # "gather") =>
          /\ \A k \in Indexes(tasks) :
                tasks[k].state = "done" /\ tasks[k].attempts = 1
          /\ total_sent' = total_sent
                + Cardinality({k \in Indexes(tasks) : tasks[k].outcome = "ok"})

\* C5: every send scheduled in a round is attempted and has returned when
\* the round is tallied, whatever the other sends of the round did, and the
\* tally counts the sends that succeeded, a raised error counting as false
C5_BatchNotAborted == [][C5_Step]_vars

\* the first send of a round failed and a later one was still sent
C5_Witness ==
    /\ pc = "gather"
    /\ Len(tasks) >= 2
    /\ tasks[1].state = "done" /\ tasks[1].outcome \in {"banned", "other"}
    /\ tasks[2].state = "done" /\ tasks[2].outcome = "ok"
    /\ tasks[2].result = "true"

C6_Step ==
    \A k \in Indexes(tasks') :
        LET t == tasks'[k]
        IN  IF t.outcome \in {"flood", "slow"}
            THEN /\ t.state \in {"throttled", "done"}
                 /\ t.slept = <<t.secs>>
                 /\ t.attempts = 1
                 /\ t.state = "done" => t.ret = "false" /\ t.result = "false"
                 /\ (k \in Indexes(tasks) /\ tasks[k] # t) =>
                       \A d \in Days :
                          /\ CountOf(config'.last_sent, t.chat, d)
                                 = StoredCount(t.chat, d)
                          /\ CountOf(file_config'.last_sent, t.chat, d)
                                 = SavedCount(t.chat, d)
            ELSE t.slept = <<>>

\* C6: a flood-wait or slow-mode error of s seconds makes send_message_safely
\* sleep s seconds once, send nothing more, return false and leave the
\* group's count as it was
C6_ThrottleSleepsOnce == [][C6_Step]_vars

\* a send that met a flood wait has slept and returned
C6_Witness ==
    \E k \in Indexes(tasks) :
        /\ tasks[k].outcome = "flood"
        /\ tasks[k].state = "done"
        /\ tasks[k].slept = <<MaxWait>>

\* C7: can_send_to_group answers (count of the key, 0 if missing) <
\* (daily_limit, or 3 * daily_limit in force mode)
C7_AdmissionResult ==
    \A c \in ChatIds, d \in Days :
        can_send_to_group(config, force_mode, c, d).result
            = (StoredCount(c, d) < StatedLimit)

\* force mode: one group's key is missing and it is admitted, another
\* group's count is three times the limit and it is denied
C7_Witness ==
    /\ force_mode
    /\ \E c1, c2 \in ChatIds :
          /\ <<c1, today>> \notin DOMAIN config.last_sent
          /\ can_send_to_group(config, force_mode, c1, today).result
          /\ StoredCount(c2, today) = 3 * config.daily_limit
          /\ ~can_send_to_group(config, force_mode, c2, today).result

\* C8: the admission checks of show_status leave the config as it was
C8_AdmissionCheckPure ==
    [][(pc = "menu_top" /\ pc' = "menu_prompt") => config' = config]_vars

\* task k's send succeeded in this step
Marks(k) == Returns(k) /\ tasks'[k].ret = "true"

C9_Step ==
    /\ \A c \in ChatIds, d \in Days :
          /\ StoredCount(c, d)' >= StoredCount(c, d)
          /\ SavedCount(c, d)' >= SavedCount(c, d)
    /\ \A k \in Indexes(tasks) :
          Marks(k) =>
              /\ \A c \in ChatIds, d \in Days :
                    StoredCount(c, d)' =
                        IF c = tasks[k].chat /\ d = today
                        THEN StoredCount(c, d) + 1
                        ELSE StoredCount(c, d)
              /\ file_config' = config'

\* C9: mark_sent_to_group adds one to the count of (chat_id, today), leaves
\* the other counts alone and saves the config; no step of the publishing
\* path lowers a count
C9_MarkIncrements == [][C9_Step]_vars

\* a group has been marked twice on one day and the file agrees
C9_Witness ==
    \E c \in ChatIds :
        /\ StoredCount(c, today) = 2
        /\ SavedCount(c, today) = 2
        /\ \E k \in Indexes(tasks) : tasks[k].chat = c /\ tasks[k].ret = "true"


\* the stored count of (chat_id, day) has reached the effective limit
Reached(chat_id, day) == StoredCount(chat_id, day) >= StatedLimit

\* the answer of the admission check for (chat_id, day)
CanSend(chat_id, day) ==
    can_send_to_group(config, force_mode, chat_id, day).result

\* C10 as stated: once the count of (g, d) has reached the effective limit
\* the admission check denies g on d after every later step, edits included
C10_DeniedForever ==
    [][\A c \in ChatIds, d \in Days :
          Reached(c, d) => ~CanSend(c, d) /\ Reached(c, d)' /\ ~CanSend(c, d)'
      ]_vars

\* C10 as amended: once the count of (g, d) has reached the effective limit
\* the admission check denies g on d after every later step that does not
\* raise daily_limit
C10_DeniedUntilLimitRaised ==
    [][\A c \in ChatIds, d \in Days :
          (Reached(c, d) /\ config'.daily_limit <= config.daily_limit)
              => ~CanSend(c, d) /\ Reached(c, d)' /\ ~CanSend(c, d)'
      ]_vars

\* an edit has just been saved while a group is at its limit and denied
C10_Witness ==
    /\ outcome = "edited"
    /\ \E c \in ChatIds : Reached(c, today) /\ ~CanSend(c, today)


\* a group is registered and some configured message is not blank
ValidInput ==
    /\ groups # <<>>
    /\ \E i \in Indexes(config.messages) : Strip(config.messages[i]) # ""

\* start_publishing is called and, in normal mode, not declined at the prompt
PublishingCalled ==
    /\ pc = (IF force_mode THEN "cycle" ELSE "menu_prompt")
    /\ outcome' \in {"running", "no_groups", "no_messages"}

\* C11: start_publishing enters the message loop exactly when a group is
\* registered and a non-empty message is configured; otherwise it returns
\* with no wait, no task and the config and the file as they were
C11_LoopIffValidInput ==
    [][PublishingCalled =>
          /\ (pc' = "waiting") <=> ValidInput
          /\ pc' # "waiting" =>
                /\ waits' = waits /\ tasks' = tasks
                /\ config' = config /\ file_config' = file_config
      ]_vars


\* ---- the external interrupt (SIGINT under asyncio.run) ----

\* SIGINT while start_publishing is suspended in an await (the delay sleep
\* or gather): asyncio cancels the main task, CancelledError is no
\* KeyboardInterrupt and no Exception, so neither handler of
\* start_publishing runs, the pending tasks are cancelled and the process
\* ends
InterruptAtAwait ==
    /\ pc \in {"waiting", "gather"}
    /\ outcome' = "cancelled"
    /\ pc' = "exited"
    /\ tasks' = <<>>
    /\ UNCHANGED <<today, force_mode, groups, config, file_config,
                   message_index, total_sent, waits, reported>>

\* SIGINT delivered while start_publishing's own code runs (the default
\* handler raises KeyboardInterrupt in the running frame): the handler of
\* start_publishing prints "Publishing stopped by user" and returns
InterruptInStep ==
    /\ \/ pc = "waiting"
       \/ pc = "gather" /\ GatherDone(tasks)
    /\ outcome' = "stopped"
    /\ pc' = IdlePc
    /\ tasks' = <<>>
    /\ UNCHANGED <<today, force_mode, groups, config, file_config,
                   message_index, total_sent, waits, reported>>

NextInterrupt ==
    \/ Next
    \/ InterruptAtAwait
    \/ InterruptInStep

SpecInterrupt == Init /\ [][NextInterrupt]_vars

\* the run of start_publishing is ended by the interrupt in this step
Interrupted == outcome = "running" /\ outcome' \notin {"running", "completed"}

\* C12: a run cancelled by the interrupt ends in the stopped-early outcome,
\* and the counts of the sends completed before it stay as they are, in
\* memory and in the file
C12_InterruptStopsEarly ==
    [][Interrupted =>
          /\ outcome' = "stopped"
          /\ \A c \in ChatIds, d \in Days :
                /\ CountOf(config'.last_sent, c, d) = StoredCount(c, d)
                /\ CountOf(file_config'.last_sent, c, d) = StoredCount(c, d)
      ]_vars


\* ---- the config file edited from outside while force mode runs ----

\* another program rewrites daily_limit in config.json
ExternalEdit(n) ==
    /\ force_mode
    /\ pc \in {"cycle", "waiting", "gather"}
    /\ n # file_config.daily_limit
    /\ file_config' = [file_config EXCEPT !.daily_limit = n]
    /\ UNCHANGED <<today, force_mode, groups, config, pc, message_index,
                   tasks, total_sent, waits, outcome, reported>>

NextReload ==
    \/ Next
    \/ \E n \in 1..(MaxLimit + 1) : ExternalEdit(n)

SpecReload == Init /\ [][NextReload]_vars

\* C13: in force mode a cycle starts with the limit, messages and delays
\* that the config file holds at that moment
C13_CycleRereadsConfig ==
    [][(force_mode /\ pc = "cycle" /\ pc' = "waiting") =>
          /\ config'.daily_limit = file_config.daily_limit
          /\ config'.messages = file_config.messages
          /\ config'.delays = file_config.delays
      ]_vars


\* ---- set_delays and the edit menu on its own ----

\* what the operator can type at a delay prompt: nothing, text that int()
\* rejects, or a number
TypedDelay ==
    [kind : {"empty", "text"}, val : {0}] \cup [kind : {"int"}, val : -1..1]

\* set_delays: one prompt per message; the config it leaves and whether it
\* saved
set_delays(cfg, inputs) ==
    LET current_delay(i) ==
            IF i <= Len(cfg.delays) THEN cfg.delays[i] ELSE DefaultDelay
        new_delays ==
            [i \in 1..Len(cfg.messages) |->
                IF inputs[i].kind = "int" THEN inputs[i].val
                ELSE current_delay(i)]
    IN  [config |-> [cfg EXCEPT !.delays = new_delays], saved |-> TRUE]

SetDelays(inputs) == ApplyEdit(set_delays(config, inputs))

NextMenu ==
    \/ RunStart
    \/ ShowStatus
    \/ EnterEdit
    \/ \E inp \in Typed(0, MaxLimit + 1) : SetDailyLimit(inp)
    \/ \E inp \in Typed(0, MaxMsgs) : SetMessageCount(inp)
    \/ \E inputs \in [1..Len(config.messages) -> TypedDelay] :
          SetDelays(inputs)
    \/ LeaveEdit
    \/ DayTick

SpecMenu == Init /\ [][NextMenu]_vars

Min(a, b) == IF a <= b THEN a ELSE b

\* C14: set_message_count(n), n > 0, leaves n messages and n delays
\* whatever the two lengths were; each list keeps its first min(old, n)
\* entries, new messages are placeholders and new delays are 300
C14_MessageCountAligns ==
    \A n \in 1..(MaxMsgs + 1) :
        LET new == set_message_count(config, [num |-> TRUE, val |-> n]).config
            keepM == Min(Len(config.messages), n)
            keepD == Min(Len(config.delays), n)
        IN  /\ Len(new.messages) = n
            /\ Len(new.delays) = n
            /\ \A j \in 1..keepM : new.messages[j] = config.messages[j]
            /\ \A j \in 1..keepD : new.delays[j] = config.delays[j]
            /\ \A j \in (keepM + 1)..n :
                  new.messages[j] =
                      "Message " \o ToString(j) \o " - please edit this"
            /\ \A j \in (keepD + 1)..n : new.delays[j] = 300

\* the count was raised from one message with no delay to two
C14_Witness ==
    /\ outcome = "edited"
    /\ config.messages = <<"A", "Message 2 - please edit this">>
    /\ config.delays = <<300, 300>>
    /\ file_config = config

\* the input is not a number or not a positive one
InvalidTyped(inp) == ~inp.num \/ inp.val <= 0

InvalidDelay(inp) == inp.kind = "text" \/ (inp.kind = "int" /\ inp.val <= 0)

\* C15: an edit operation given a non-numeric or non-positive value leaves
\* the config as it was and saves nothing
C15_InvalidInputNoChange ==
    pc = "edit_menu" =>
        /\ \A inp \in Typed(0, MaxMsgs) :
              InvalidTyped(inp) =>
                  /\ set_message_count(config, inp).config = config
                  /\ ~set_message_count(config, inp).saved
                  /\ set_daily_limit(config, inp).config = config
                  /\ ~set_daily_limit(config, inp).saved
        /\ \A inputs \in [1..Len(config.messages) -> TypedDelay] :
              (\E i \in DOMAIN inputs : InvalidDelay(inputs[i])) =>
                  /\ set_delays(config, inputs).config = config
                  /\ ~set_delays(config, inputs).saved


\* the sum of the counts of a counter mapping over the keys in S
RECURSIVE SumCounts(_, _)
SumCounts(ls, S) ==
    IF S = {} THEN 0
    ELSE LET k == CHOOSE x \in S : TRUE
         IN  CountOf(ls, k[1], k[2]) + SumCounts(ls, S \ {k})

TotalCount(ls) == SumCounts(ls, ChatIds \X Days)

\* the sends of the current round that returned success
Succeeded(ts) == Cardinality({k \in Indexes(ts) : ts[k].ret = "true"})

C16_Step ==
    /\ (outcome # "running" /\ outcome' = "running") =>
          total_sent' = 0 /\ tasks' = <<>>
    /\ (outcome = "running" /\ outcome' \in {"running", "completed"}) =>
          /\ TotalCount(config'.last_sent) - total_sent' - Succeeded(tasks')
                = TotalCount(config.last_sent) - total_sent - Succeeded(tasks)
          /\ TotalCount(file_config'.last_sent) - total_sent'
                   - Succeeded(tasks')
                = TotalCount(file_config.last_sent) - total_sent
                   - Succeeded(tasks)
    /\ (outcome = "running" /\ outcome' = "completed") =>
          reported' = total_sent' /\ tasks' = <<>>

\* C16: a run starts its total at 0, every step of the run changes the sum
\* of the counts, in memory and in the file, by exactly the successes it adds
\* to the total or to the round in flight, and the run reports its total:
\* the reported total is the number of successful sends and the increase of
\* the counts over the run, whatever the interleaving
C16_TotalMatchesCounts == [][C16_Step]_vars

\* a run of four sends reported three successes
C16_Witness ==
    /\ outcome = "completed"
    /\ reported = 3
    /\ TotalCount(config.last_sent) = 3
    /\ TotalCount(file_config.last_sent) = 3

====
